---- MODULE Spec2Model ----
(***************************************************************************)
(* Model of the training-schedule simulator (src/src/main.rs, types.rs).   *)
(*                                                                         *)
(* Quantities that the program keeps as f32 are modelled exactly on a grid:*)
(*   - hours (durations, limits, invested time, roi, hours_needed) are     *)
(*     integers, and the solver picks combo hours among multiples of Grain;*)
(*   - ranks are integers counting half ranks (3 is rank 1.5), so that     *)
(*     floor() is a real conversion;                                       *)
(*   - dates are day numbers, `start` being day 0.                         *)
(* The LP solver is modelled as a nondeterministic choice among the        *)
(* feasible grid assignments that maximise the objective; for a person     *)
(* without a target the objective is constant and every feasible           *)
(* assignment may be returned.  All durations, limits and hours_needed of  *)
(* the tasks below are multiples of Grain.                                 *)
(***************************************************************************)
EXTENDS Integers, Sequences, FiniteSets, TLC

VARIABLES pc, err, now, until, persons, ntasks, ev, solution,
          sum_roi, days, report, all_roi, simulated

vars == <<pc, err, now, until, persons, ntasks, ev, solution,
          sum_roi, days, report, all_roi, simulated>>

\* ---------------------------------------------------------------- bounds
MaxTasks == 5
MaxDate == 3

\* ------------------------------------------------------- program constants
HOURS_PER_WEEK == 48
WEEKS_PER_MONTH == 4
DEFAULT_PRIORITY_OFFSET == 0
DEFAULT_PRIORITY_ORDER == <<"Integrity", "Dreamwalking", "Illusion", "Lore">>

ATTRIBUTES ==
  {"Strength", "Dexterity", "Stamina", "Charisma", "Manipulation",
   "Appearance", "Perception", "Intelligence", "Wits"}

ABILITIES ==
  {"Archery", "Athletics", "Awareness", "Brawl", "Bureaucracy", "Craft",
   "Dodge", "Integrity", "Investigation", "Larceny", "Linguistics", "Lore",
   "Martial Arts", "Medicine", "Melee", "Occult", "Performance", "Presence",
   "Resistance", "Ride", "Sail", "Socialize", "Stealth", "Survival",
   "Thrown", "War", "Firearms", "Driving"}

PSIONICS == {"Dreamwalking", "Illusion"}

start == 0

\* The solver's grid: combo hours are multiples of half the weekly rate.
Grain == HOURS_PER_WEEK \div 2

\* ----------------------------------------------------------------- helpers
EmptyMap == [x \in {} |-> 0]

Range(s) == {s[i] : i \in DOMAIN s}

RECURSIVE SumOver(_, _)
\* Sum of f[x] over the finite set S.
SumOver(S, f) ==
  IF S = {} THEN 0
  ELSE LET x == CHOOSE y \in S : TRUE IN f[x] + SumOver(S \ {x}, f)

\* f32::floor on a rank given in half ranks.
Floor(rank) == rank \div 2

NoTask == [kind |-> "None", name |-> "", date |-> 0, arg |-> EmptyMap]

\* ------------------------------------------------------------ the classifier
effective_training_hours_needed(skill, rank) ==
  LET current_rank == Floor(rank) IN
  IF current_rank <= 0
  THEN IF skill \in ATTRIBUTES THEN 3 * HOURS_PER_WEEK * WEEKS_PER_MONTH
       ELSE IF skill \in ABILITIES THEN 3 * HOURS_PER_WEEK
       ELSE IF skill \in PSIONICS THEN 2 * HOURS_PER_WEEK
       ELSE -1
  ELSE IF skill \in ATTRIBUTES THEN current_rank * HOURS_PER_WEEK * WEEKS_PER_MONTH
       ELSE IF skill \in ABILITIES THEN current_rank * HOURS_PER_WEEK
       ELSE IF skill \in PSIONICS THEN current_rank * HOURS_PER_WEEK
       ELSE -1

\* The panic!("Unknown skill type") branches of the classifier.
UnknownSkillType(skill) == skill \notin (ATTRIBUTES \cup ABILITIES \cup PSIONICS)

\* ------------------------------------------------------------------ Person
\* Person::new: the default preference map, the other maps empty.
DefaultPreference ==
  LET n == Len(DEFAULT_PRIORITY_ORDER)
      rev == [i \in 1..n |-> DEFAULT_PRIORITY_ORDER[n + 1 - i]]
  IN [skill \in Range(rev) |->
        LET i == CHOOSE j \in 1..n : rev[j] = skill
        IN 1 + (i - 1) * DEFAULT_PRIORITY_OFFSET]

PersonNew(name, skills) ==
  [name |-> name, skills |-> skills, schedule |-> EmptyMap,
   safety_limit |-> EmptyMap, schedule_limit |-> EmptyMap,
   overlap |-> <<>>, target |-> EmptyMap, preference |-> DefaultPreference]

\* --------------------------------------------------------- simulate_person
\* Keys of invested_seg_combo: one variable per (segment, combo vector).
Combos(person) == {person.overlap[i].combo : i \in DOMAIN person.overlap}

SegCombos(person) == (DOMAIN person.schedule) \X Combos(person)

\* combo.contains(skill)
Contains(combo, skill) == skill \in Range(combo)

\* person.overlap.iter().find(|o| o.combo == *combo).unwrap().bonus
BonusOf(person, combo) ==
  LET i == CHOOSE j \in DOMAIN person.overlap :
             /\ person.overlap[j].combo = combo
             /\ \A k \in 1..(j - 1) : person.overlap[k].combo # combo
  IN person.overlap[i].bonus

\* Variant of constraint 5 that counts every combo once, whatever its size.
InvestedSeg_plain(person, x, seg) ==
  LET S == {sc \in SegCombos(person) : sc[1] = seg}
  IN SumOver(S, [sc \in S |-> x[sc]])

\* Constraint 5: segment total = sum of combo hours times the combo's size.
InvestedSeg(person, x, seg) ==
  LET S == {sc \in SegCombos(person) : sc[1] = seg}
  IN SumOver(S, [sc \in S |-> x[sc] * Len(sc[2])])

\* Constraint 4: skill total = sum of the hours of the combos containing it.
InvestedSkill(person, x, skill) ==
  LET S == {sc \in SegCombos(person) : Contains(sc[2], skill)}
  IN SumOver(S, [sc \in S |-> x[sc]])

\* Constraint 6: roi = sum of combo hours times the combo's bonus.
RoiOf(person, x, skill) ==
  LET S == {sc \in SegCombos(person) : Contains(sc[2], skill)}
  IN SumOver(S, [sc \in S |-> x[sc] * BonusOf(person, sc[2])])

\* The skills that get an invested_skill variable (and a roi variable).
SkillVars(person) == DOMAIN person.target

\* Constraint 3: safety limits, for the skills that have a variable.
SafetyOk(person, x) ==
  \A skill \in DOMAIN person.safety_limit :
     skill \in SkillVars(person)
       => InvestedSkill(person, x, skill) <= person.safety_limit[skill]

\* Variant of constraint 7 with the superset test the wrong way round.
ScheduleLimitOk_reversed(person, x) ==
  \A seg \in DOMAIN person.schedule_limit :
    \A sc \in SegCombos(person) :
       (sc[1] = seg /\ ~(Range(person.schedule_limit[seg]) \subseteq Range(sc[2])))
         => x[sc] = 0

\* Constraint 7: in a limited segment only combos of permitted skills get time.
ScheduleLimitOk(person, x) ==
  \A seg \in DOMAIN person.schedule_limit :
    \A sc \in SegCombos(person) :
       (sc[1] = seg /\ ~(Range(sc[2]) \subseteq Range(person.schedule_limit[seg])))
         => x[sc] = 0

\* Constraints 1, 2 and 8.
NonNegative(person, x) ==
  /\ \A sc \in SegCombos(person) : x[sc] >= 0
  /\ \A seg \in DOMAIN person.schedule : InvestedSeg(person, x, seg) >= 0
  /\ \A skill \in SkillVars(person) : InvestedSkill(person, x, skill) >= 0

SegmentOk(person, x) ==
  \A seg \in DOMAIN person.schedule :
     InvestedSeg(person, x, seg) <= person.schedule[seg]

NeedOk(person, x) ==
  \A skill \in DOMAIN person.target :
     RoiOf(person, x, skill) <= person.target[skill].hours_needed

Feasible(person, x) ==
  /\ NonNegative(person, x)
  /\ SegmentOk(person, x)
  /\ SafetyOk(person, x)
  /\ ScheduleLimitOk(person, x)
  /\ NeedOk(person, x)

\* problem += var * person.preference[skill], for every roi variable.
Objective(person, x) ==
  LET S == DOMAIN person.target
  IN SumOver(S, [skill \in S |-> RoiOf(person, x, skill) * person.preference[skill]])

\* The grid the solver searches: multiples of Grain up to the longest segment.
GridValues(person) ==
  LET D == {person.schedule[seg] : seg \in DOMAIN person.schedule}
      m == IF D = {} THEN 0 ELSE CHOOSE d \in D : \A e \in D : e <= d
  IN {g * Grain : g \in 0..(m \div Grain)}

FeasibleSet(person) ==
  {x \in [SegCombos(person) -> GridValues(person)] : Feasible(person, x)}

\* solver.run(&problem): the assignments that maximise the objective.
Solve(person) ==
  LET F == FeasibleSet(person)
      obj == [x \in F |-> Objective(person, x)]
      best == CHOOSE v \in {obj[x] : x \in F} : \A x \in F : obj[x] <= v
  IN {x \in F : obj[x] = best}

\* The values of all variables of a solved model.
SolutionOf(person, x) ==
  [combo |-> x,
   segment |-> [seg \in DOMAIN person.schedule |-> InvestedSeg(person, x, seg)],
   skill |-> [k \in SkillVars(person) |-> InvestedSkill(person, x, k)],
   roi |-> [k \in DOMAIN person.target |-> RoiOf(person, x, k)]]

\* The index person.preference[skill] panics for a skill without an entry.
PreferenceMissing(person) ==
  \E skill \in DOMAIN person.target : skill \notin DOMAIN person.preference

\* simulate_person: an error, or the set of solutions the solver may return.
simulate_person(person) ==
  IF PreferenceMissing(person)
  THEN [err |-> "NoPreference", sols |-> {}]
  ELSE LET S == Solve(person) IN
       IF S = {}
       THEN [err |-> "ModelInfeasible", sols |-> {}]
       ELSE [err |-> "", sols |-> {SolutionOf(person, x) : x \in S}]

\* --------------------------------------------------------------- simulate_day
\* Variant that removes a target only when hours_needed is < 0.
ApplyIncrement_strict(target, increment) ==
  LET left == [k \in DOMAIN target |->
                 IF k \in DOMAIN increment
                 THEN target[k].hours_needed - increment[k]
                 ELSE target[k].hours_needed]
  IN [k \in {j \in DOMAIN target : left[j] >= 0} |->
        [target[k] EXCEPT !.hours_needed = left[k]]]

\* hours_needed -= roi, and the target is removed when that is <= 0.
ApplyIncrement(target, increment) ==
  LET left == [k \in DOMAIN target |->
                 IF k \in DOMAIN increment
                 THEN target[k].hours_needed - increment[k]
                 ELSE target[k].hours_needed]
  IN [k \in {j \in DOMAIN target : left[j] > 0} |->
        [target[k] EXCEPT !.hours_needed = left[k]]]

\* BTreeMap iteration order of the persons.
NameOrder == <<"Amu", "Bo">>

RECURSIVE DayFrom(_, _, _, _)
\* The outcomes of simulate_day from the i-th person on: the persons map
\* after the processed persons' updates, their solutions, the day's roi, and
\* the panic that ended the day, if any.
DayFrom(i, ps, sols, total) ==
  IF i > Len(NameOrder)
  THEN {[persons |-> ps, solution |-> sols, sum_roi |-> total, err |-> ""]}
  ELSE LET n == NameOrder[i] IN
       IF n \notin DOMAIN ps
       THEN DayFrom(i + 1, ps, sols, total)
       ELSE LET r == simulate_person(ps[n]) IN
            IF r.err # ""
            THEN {[persons |-> ps, solution |-> sols, sum_roi |-> total, err |-> r.err]}
            ELSE UNION {DayFrom(i + 1,
                                [ps EXCEPT ![n].target = ApplyIncrement(@, s.roi)],
                                sols @@ (n :> s),
                                total + SumOver(DOMAIN s.roi, s.roi)) : s \in r.sols}

simulate_day(ps) == DayFrom(1, ps, EmptyMap, 0)

\* ------------------------------------------------------- the tasks' inputs
\* The schedule is any sequence of at most MaxTasks tasks drawn from these
\* menus.  "Amu" is configured in full; "Bo" is a second person with skills
\* outside the default preference order.
Names == {"Amu", "Bo"}

\* Baseline: skills, skill -> rank (in half ranks)
BaselineTasks ==
  { <<"Amu", ("Integrity" :> 4) @@ ("Lore" :> 3)>>,
    <<"Bo", ("Strength" :> 0) @@ ("Juggling" :> 2)>> }

\* Schedule: segment -> hours
ScheduleTasks ==
  { <<"Amu", ("Day" :> 2 * Grain)>>,
    <<"Amu", ("Day" :> Grain) @@ ("Night" :> Grain)>>,
    <<"Amu", ("Day" :> 0 - Grain)>>,
    <<"Bo", ("Day" :> 2 * Grain)>> }

\* SafetyLimit: skill -> hours per day
SafetyLimitTasks ==
  { <<"Amu", ("Lore" :> 0)>>,
    <<"Amu", ("Integrity" :> Grain)>> }

\* ScheduleLimit: segment -> the skills allowed in it
ScheduleLimitTasks == { <<"Amu", ("Day" :> <<"Lore">>)>> }

\* Overlap: the combos with their bonus
OverlapTasks ==
  { <<"Amu", <<>> >>,
    <<"Amu", <<[combo |-> <<"Lore">>, bonus |-> 2],
               [combo |-> <<"Integrity", "Lore">>, bonus |-> 3]>> >>,
    <<"Bo", <<>> >> }

\* Target: skill -> target rank (in half ranks)
TargetTasks ==
  { <<"Amu", ("Integrity" :> 6)>>,
    <<"Amu", ("Integrity" :> 6) @@ ("Lore" :> 4)>>,
    <<"Amu", ("Strength" :> 2)>>,
    <<"Bo", ("Strength" :> 2)>>,
    <<"Bo", ("Juggling" :> 4)>> }

\* At: the dates tried, relative to the current date
AtDates == {d \in {now - 1, now, now + 1, now + 2} : d <= MaxDate}

\* ------------------------------------------------------------------- state
Init ==
  /\ pc = "tasks"
  /\ err = ""
  /\ now = start
  /\ until = start
  /\ persons = EmptyMap
  /\ ntasks = 0
  /\ ev = NoTask
  /\ solution = EmptyMap
  /\ sum_roi = 0
  /\ days = 0
  /\ report = [printed |-> FALSE, total |-> 0, per_day |-> <<0, 1>>]
  /\ all_roi = 0
  /\ simulated = <<>>

\* A task is taken from the schedule.
Take(task) ==
  /\ pc = "tasks"
  /\ ntasks < MaxTasks
  /\ ntasks' = ntasks + 1
  /\ ev' = task
  /\ solution' = EmptyMap

\* panic!/unwrap()/index failure inside a task: the run aborts.
Panic(e) ==
  /\ pc' = "panicked"
  /\ err' = e
  /\ UNCHANGED <<now, until, persons, sum_roi, days, report, all_roi, simulated>>

\* The task mutates one field of an existing person.
SetField(ps) ==
  /\ persons' = ps
  /\ UNCHANGED <<pc, err, now, until, sum_roi, days, report, all_roi, simulated>>

\* ------------------------------------------------------------------- tasks
TaskAt(date) ==
  /\ Take([kind |-> "At", name |-> "", date |-> date, arg |-> EmptyMap])
  /\ IF date <= now
     THEN Panic("BackInTime")
     ELSE /\ pc' = "at"
          /\ until' = date
          /\ UNCHANGED <<err, now, persons, sum_roi, days, report, all_roi, simulated>>

TaskBaseline(name, skills) ==
  /\ Take([kind |-> "Baseline", name |-> name, date |-> 0, arg |-> skills])
  /\ IF name \in DOMAIN persons
     THEN Panic("PersonExists")
     ELSE SetField(persons @@ (name :> PersonNew(name, skills)))

\* Variant that merges the new segments into the old schedule.
TaskSchedule_merge(name, segment) ==
  /\ Take([kind |-> "Schedule", name |-> name, date |-> 0, arg |-> segment])
  /\ IF name \notin DOMAIN persons
     THEN Panic("UnknownPerson")
     ELSE SetField([persons EXCEPT ![name].schedule = segment @@ @])

TaskSchedule(name, segment) ==
  /\ Take([kind |-> "Schedule", name |-> name, date |-> 0, arg |-> segment])
  /\ IF name \notin DOMAIN persons
     THEN Panic("UnknownPerson")
     ELSE SetField([persons EXCEPT ![name].schedule = segment])

TaskSafetyLimit(name, limit) ==
  /\ Take([kind |-> "SafetyLimit", name |-> name, date |-> 0, arg |-> limit])
  /\ IF name \notin DOMAIN persons
     THEN Panic("UnknownPerson")
     ELSE SetField([persons EXCEPT ![name].safety_limit = limit])

TaskScheduleLimit(name, limit) ==
  /\ Take([kind |-> "ScheduleLimit", name |-> name, date |-> 0, arg |-> limit])
  /\ IF name \notin DOMAIN persons
     THEN Panic("UnknownPerson")
     ELSE SetField([persons EXCEPT ![name].schedule_limit = limit])

\* The trivial 1-skill combos pushed after the given ones, in key order.
RECURSIVE Singletons(_)
Singletons(skills) ==
  IF skills = {} THEN <<>>
  ELSE LET k == CHOOSE s \in skills : TRUE
       IN <<[combo |-> <<k>>, bonus |-> 1]>> \o Singletons(skills \ {k})

TaskOverlap(name, when) ==
  /\ Take([kind |-> "Overlap", name |-> name, date |-> 0, arg |-> when])
  /\ IF name \notin DOMAIN persons
     THEN Panic("UnknownPerson")
     ELSE SetField([persons EXCEPT
            ![name].overlap = when \o Singletons(DOMAIN persons[name].skills)])

NewTargets(person, target) ==
  [skill \in DOMAIN target |->
     [target_ranks |-> target[skill],
      hours_needed |-> effective_training_hours_needed(skill, person.skills[skill])]]

TaskTarget(name, target) ==
  /\ Take([kind |-> "Target", name |-> name, date |-> 0, arg |-> target])
  /\ IF name \notin DOMAIN persons
     THEN Panic("UnknownPerson")
     ELSE IF \E skill \in DOMAIN target : skill \notin DOMAIN persons[name].skills
     THEN Panic("MissingSkill")
     ELSE IF \E skill \in DOMAIN target : UnknownSkillType(skill)
     THEN Panic("UnknownSkillType")
     ELSE SetField([persons EXCEPT ![name].target = NewTargets(persons[name], target)])

\* -------------------------------------------------------------------- days
\* Variant with the loop `while now <= date`, which also simulates the date.
AtDay_inclusive ==
  /\ pc = "at"
  /\ now <= until
  /\ simulated' = Append(simulated, now)
  /\ \E r \in simulate_day(persons) :
       /\ persons' = r.persons
       /\ solution' = r.solution
       /\ all_roi' = all_roi + r.sum_roi
       /\ IF r.err # ""
          THEN /\ pc' = "panicked"
               /\ err' = r.err
               /\ now' = now
          ELSE /\ now' = now + 1
               /\ pc' = IF now + 1 <= until THEN "at" ELSE "tasks"
               /\ err' = err
  /\ UNCHANGED <<until, ntasks, ev, sum_roi, days, report>>

\* One iteration of `while now < date` in the At task.
AtDay ==
  /\ pc = "at"
  /\ now < until
  /\ simulated' = Append(simulated, now)
  /\ \E r \in simulate_day(persons) :
       /\ persons' = r.persons
       /\ solution' = r.solution
       /\ all_roi' = all_roi + r.sum_roi
       /\ IF r.err # ""
          THEN /\ pc' = "panicked"
               /\ err' = r.err
               /\ now' = now
          ELSE /\ now' = now + 1
               /\ pc' = IF now + 1 < until THEN "at" ELSE "tasks"
               /\ err' = err
  /\ UNCHANGED <<until, ntasks, ev, sum_roi, days, report>>

\* The task list is exhausted.
EndOfSchedule ==
  /\ pc = "tasks"
  /\ pc' = "deplete"
  /\ sum_roi' = 0
  /\ days' = 0
  /\ solution' = EmptyMap
  /\ ev' = NoTask
  /\ UNCHANGED <<err, now, until, persons, ntasks, report, all_roi, simulated>>

AnyTarget(ps) == \E n \in DOMAIN ps : DOMAIN ps[n].target # {}

\* One iteration of the depletion loop.
DepleteDay ==
  /\ pc = "deplete"
  /\ AnyTarget(persons)
  /\ now < MaxDate
  /\ simulated' = Append(simulated, now)
  /\ \E r \in simulate_day(persons) :
       /\ persons' = r.persons
       /\ solution' = r.solution
       /\ all_roi' = all_roi + r.sum_roi
       /\ IF r.err # ""
          THEN /\ pc' = "panicked"
               /\ err' = r.err
               /\ UNCHANGED <<now, sum_roi, days>>
          ELSE /\ sum_roi' = sum_roi + r.sum_roi
               /\ days' = days + 1
               /\ now' = now + 1
               /\ UNCHANGED <<pc, err>>
  /\ UNCHANGED <<until, ntasks, ev, report>>

\* println!("Total ROI: {}, ROI/day: {}", sum_roi, sum_roi / days)
Report ==
  /\ pc = "deplete"
  /\ ~AnyTarget(persons)
  /\ pc' = "done"
  /\ report' = [printed |-> TRUE, total |-> sum_roi, per_day |-> <<sum_roi, days>>]
  /\ UNCHANGED <<err, now, until, persons, ntasks, ev, solution,
                 sum_roi, days, all_roi, simulated>>

Next ==
  \/ \E date \in AtDates : TaskAt(date)
  \/ \E t \in BaselineTasks : TaskBaseline(t[1], t[2])
  \/ \E t \in ScheduleTasks : TaskSchedule(t[1], t[2])
  \/ \E t \in SafetyLimitTasks : TaskSafetyLimit(t[1], t[2])
  \/ \E t \in ScheduleLimitTasks : TaskScheduleLimit(t[1], t[2])
  \/ \E t \in OverlapTasks : TaskOverlap(t[1], t[2])
  \/ \E t \in TargetTasks : TaskTarget(t[1], t[2])
  \/ AtDay
  \/ EndOfSchedule
  \/ DepleteDay
  \/ Report

Spec == Init /\ [][Next]_vars

\* ------------------------------------------------ vocabulary of the properties
\* This step is a call of simulate_day.
DayStep == simulated' # simulated

\* This step takes a task from the schedule.
TaskStep == ntasks' = ntasks + 1

\* The hours a solution gives to the combos of segment seg, each counted once.
PlainSegSum(x, seg) ==
  LET S == {sc \in DOMAIN x : sc[1] = seg} IN SumOver(S, [sc \in S |-> x[sc]])

\* The same hours, each combo counted once per skill in it.
SizedSegSum(x, seg) ==
  LET S == {sc \in DOMAIN x : sc[1] = seg}
  IN SumOver(S, [sc \in S |-> x[sc] * Cardinality(DOMAIN sc[2])])

\* The raw hours a solution invests in a skill, over all segments and combos.
RawSkillSum(x, skill) ==
  LET S == {sc \in DOMAIN x : \E i \in DOMAIN sc[2] : sc[2][i] = skill}
  IN SumOver(S, [sc \in S |-> x[sc]])

\* The combo is allowed in the segment by the person's schedule limit.
Allowed(person, seg, combo) ==
  seg \in DOMAIN person.schedule_limit
    => \A i \in DOMAIN combo :
         \E j \in DOMAIN person.schedule_limit[seg] :
            person.schedule_limit[seg][j] = combo[i]

\* Skill k is an active target, the person has segments and combos with k,
\* and the schedule limits forbid every such combo in every segment.
Excluded(person, k) ==
  /\ k \in DOMAIN person.target
  /\ \E seg \in DOMAIN person.schedule :
       \E i \in DOMAIN person.overlap : Contains(person.overlap[i].combo, k)
  /\ \A seg \in DOMAIN person.schedule :
       \A i \in DOMAIN person.overlap :
          Contains(person.overlap[i].combo, k)
            => ~Allowed(person, seg, person.overlap[i].combo)

\* The person whose solve ended the day with a panic.
FailedAt(n) ==
  /\ DayStep
  /\ pc' = "panicked"
  /\ n \in DOMAIN persons
  /\ n \notin DOMAIN solution'
  /\ \A i \in DOMAIN NameOrder :
       (NameOrder[i] \in DOMAIN persons /\ NameOrder[i] \notin DOMAIN solution')
         => \E j \in 1..i : NameOrder[j] = n

NegativeInput(person) ==
  \/ \E seg \in DOMAIN person.schedule : person.schedule[seg] < 0
  \/ \E k \in DOMAIN person.safety_limit : person.safety_limit[k] < 0

\* ---------------------------------------------------------------------- C1
\* C1 (as claimed): when a schedule limit excludes a target skill from every
\* segment in which it could be trained, simulating a day for that person
\* ends in the solve failure ModelInfeasible.
C1_Infeasible ==
  [][\A n \in DOMAIN persons :
       (DayStep /\ \E k \in DOMAIN persons[n].target : Excluded(persons[n], k))
         => (pc' = "panicked" /\ err' = "ModelInfeasible")]_vars

\* C1 (amended): in that situation the exclusion does not make the model
\* infeasible.  Whenever the person's solve returns, the excluded skill has
\* roi 0 and its target stays in the map with hours_needed unchanged; the
\* solve fails as infeasible only if a duration or safety limit is negative.
C1_ZeroRoi ==
  [][\A n \in DOMAIN persons : \A k \in DOMAIN persons[n].target :
       (DayStep /\ Excluded(persons[n], k))
         => /\ n \in DOMAIN solution'
                => /\ solution'[n].roi[k] = 0
                   /\ k \in DOMAIN persons'[n].target
                   /\ persons'[n].target[k] = persons[n].target[k]
            /\ (FailedAt(n) /\ err' = "ModelInfeasible")
                => NegativeInput(persons[n])]_vars

\* A day was simulated for a person with an excluded target skill.
C1_Witness ==
  /\ simulated # <<>>
  /\ pc = "deplete"
  /\ \E n \in DOMAIN solution : \E k \in DOMAIN persons[n].target :
       /\ Excluded(persons[n], k)
       /\ solution[n].roi[k] = 0

\* ---------------------------------------------------------------------- C2
\* C2 (as claimed): in every accepted allocation, invested_segment[s] is the
\* plain sum of invested_combo[s, combo] over the combos, and is at most
\* schedule[s].  Stated for the persons with an active target, whose
\* allocation the objective determines.
C2_PlainSum ==
  [][DayStep =>
       \A n \in DOMAIN solution' : \A s \in DOMAIN persons[n].schedule :
          DOMAIN persons[n].target # {}
            => /\ solution'[n].segment[s] = PlainSegSum(solution'[n].combo, s)
               /\ solution'[n].segment[s] <= persons[n].schedule[s]]_vars

\* C2 (amended): in every accepted allocation, invested_segment[s] is the sum
\* of invested_combo[s, combo] times the number of skills of the combo, and
\* this sum is at most schedule[s].
C2_SizedSum ==
  [][DayStep =>
       \A n \in DOMAIN solution' : \A s \in DOMAIN persons[n].schedule :
          /\ solution'[n].segment[s] = SizedSegSum(solution'[n].combo, s)
          /\ SizedSegSum(solution'[n].combo, s) <= persons[n].schedule[s]]_vars

\* An accepted allocation gives time to a combo of two skills.
C2_Witness ==
  \E n \in DOMAIN solution : \E sc \in DOMAIN solution[n].combo :
     Len(sc[2]) = 2 /\ solution[n].combo[sc] > 0

\* ---------------------------------------------------------------------- C3
\* C3: on every simulated day, for every active target k of a person, roi[k]
\* is at most the remaining hours_needed; afterwards the target remains with
\* hours_needed = before - roi[k] when that is positive and is removed
\* otherwise.  No target with hours_needed <= 0 is ever present, and a day
\* never increases hours_needed.
C3_TargetUpdate ==
  /\ [](\A n \in DOMAIN persons : \A k \in DOMAIN persons[n].target :
          persons[n].target[k].hours_needed > 0)
  /\ [][DayStep =>
          \A n \in DOMAIN solution' : \A k \in DOMAIN persons[n].target :
             LET before == persons[n].target[k].hours_needed
                 roi == solution'[n].roi[k]
             IN /\ roi <= before
                /\ (before - roi > 0)
                     => /\ k \in DOMAIN persons'[n].target
                        /\ persons'[n].target[k].hours_needed = before - roi
                        /\ persons'[n].target[k].hours_needed <= before
                /\ (before - roi <= 0) => k \notin DOMAIN persons'[n].target]_vars

\* A target was trained on a day and remains with fewer hours needed.
C3_Witness ==
  \E n \in DOMAIN solution : \E k \in DOMAIN solution[n].roi :
     /\ solution[n].roi[k] > 0
     /\ k \in DOMAIN persons[n].target
     /\ persons[n].target[k].hours_needed > 0

\* ---------------------------------------------------------------------- C4
\* C4: in every accepted allocation, for every skill with a safety limit L,
\* with an active target or not, the raw hours invested in the skill over all
\* segments and combos are at most L.  Stated for the persons with an active
\* target, whose allocation the objective determines.
C4_SafetyLimit ==
  [][DayStep =>
       \A n \in DOMAIN solution' : \A k \in DOMAIN persons[n].safety_limit :
          DOMAIN persons[n].target # {}
            => RawSkillSum(solution'[n].combo, k) <= persons[n].safety_limit[k]]_vars

\* ---------------------------------------------------------------------- C5
\* C5: for a person with an active target on any classifiable skill, building
\* the day's model never fails because the skill has no preference entry.
C5_PreferenceDefault ==
  [][\A n \in DOMAIN persons :
       (/\ DayStep
        /\ DOMAIN persons[n].target # {}
        /\ \A k \in DOMAIN persons[n].target : ~UnknownSkillType(k))
         => ~(FailedAt(n) /\ err' = "NoPreference")]_vars

\* ---------------------------------------------------------------------- C6
\* C6: every existing person's overlap list contains, for every skill of the
\* person, the singleton combo [skill] exactly once, with bonus 1.0.
C6_Singletons ==
  \A n \in DOMAIN persons : \A k \in DOMAIN persons[n].skills :
     /\ \E i \in DOMAIN persons[n].overlap :
          persons[n].overlap[i] = [combo |-> <<k>>, bonus |-> 1]
     /\ Cardinality({i \in DOMAIN persons[n].overlap :
                       persons[n].overlap[i].combo = <<k>>}) = 1

\* ---------------------------------------------------------------------- C7
Fields ==
  {"name", "skills", "schedule", "safety_limit", "schedule_limit",
   "overlap", "target", "preference"}

FieldOf(kind) ==
  CASE kind = "Schedule" -> "schedule"
    [] kind = "SafetyLimit" -> "safety_limit"
    [] kind = "ScheduleLimit" -> "schedule_limit"
    [] kind = "Overlap" -> "overlap"
    [] kind = "Target" -> "target"

\* The task is one of the invalid events the claim lists, in the current state.
Invalid(task) ==
  \/ task.kind = "Baseline" /\ task.name \in DOMAIN persons
  \/ task.kind \in {"Schedule", "SafetyLimit", "ScheduleLimit", "Overlap", "Target"}
       /\ task.name \notin DOMAIN persons
  \/ task.kind = "At" /\ task.date <= now

\* The task is a non-baseline event that the program accepts.
ValidSet(task) ==
  /\ task.kind \in {"Schedule", "SafetyLimit", "ScheduleLimit", "Overlap", "Target"}
  /\ task.name \in DOMAIN persons
  /\ task.kind = "Target"
       => \A k \in DOMAIN task.arg :
             k \in DOMAIN persons[task.name].skills /\ ~UnknownSkillType(k)

\* The value the field has after the task, which owes nothing to its old value.
Replaced(task) ==
  LET old == persons[task.name]
      new == persons'[task.name]
  IN CASE task.kind \in {"Schedule", "SafetyLimit", "ScheduleLimit"} ->
            new[FieldOf(task.kind)] = task.arg
       [] task.kind = "Overlap" ->
            /\ Len(new.overlap) = Len(task.arg) + Cardinality(DOMAIN old.skills)
            /\ \A i \in DOMAIN task.arg : new.overlap[i] = task.arg[i]
            /\ {new.overlap[i] : i \in (Len(task.arg) + 1)..Len(new.overlap)}
                 = {[combo |-> <<k>>, bonus |-> 1] : k \in DOMAIN old.skills}
       [] task.kind = "Target" ->
            /\ DOMAIN new.target = DOMAIN task.arg
            /\ \A k \in DOMAIN task.arg :
                  /\ new.target[k].target_ranks = task.arg[k]
                  /\ new.target[k].hours_needed
                       = effective_training_hours_needed(k, old.skills[k])

\* Everything but the task's field of the task's person is as before.
OthersKept(task) ==
  /\ DOMAIN persons' = DOMAIN persons
  /\ \A m \in DOMAIN persons \ {task.name} : persons'[m] = persons[m]
  /\ \A f \in Fields \ {FieldOf(task.kind)} :
        persons'[task.name][f] = persons[task.name][f]
  /\ now' = now
  /\ pc' = "tasks"

\* C7: an invalid event (baseline of an existing name, non-baseline event for
\* an unknown name, At with a date at or before the current date) is a fatal
\* error that changes neither the persons nor the date; a valid non-baseline
\* event replaces the whole value of its field and changes nothing else.
C7_Events ==
  [][TaskStep =>
       /\ Invalid(ev') => (pc' = "panicked" /\ persons' = persons /\ now' = now)
       /\ ValidSet(ev') => (Replaced(ev') /\ OthersKept(ev'))]_vars

\* An event was rejected in a run that has persons and has advanced the date.
C7_Witness ==
  /\ pc = "panicked"
  /\ err \in {"PersonExists", "UnknownPerson", "BackInTime"}
  /\ Cardinality(DOMAIN persons) = 2
  /\ \E n \in DOMAIN persons : DOMAIN persons[n].schedule # {}

\* ---------------------------------------------------------------------- C8
\* C8: an At event with a later date D makes the driver simulate every day
\* from the current date up to but not including D, once each and in
\* increasing order, with no task taken in between; the next task is taken
\* with the current date equal to D.
C8_AtDays ==
  /\ [](pc = "at" => (ev.kind = "At" /\ ev.date = until /\ now < until))
  /\ []((pc = "tasks" /\ ev.kind = "At") => now = ev.date)
  /\ []((pc # "panicked") =>
          simulated = [i \in 1..(now - start) |-> start + i - 1])
  /\ [][(pc = "at") =>
          /\ ev' = ev
          /\ ntasks' = ntasks
          /\ simulated' = Append(simulated, now)
          /\ (pc' # "panicked") => now' = now + 1]_vars
  /\ [][TaskStep => (pc = "tasks" /\ simulated' = simulated)]_vars

\* An At event over two days, with a person present, has been completed.
C8_Witness ==
  /\ pc = "tasks"
  /\ ev.kind = "At"
  /\ ev.date = now
  /\ ntasks = 2
  /\ DOMAIN persons # {}
  /\ simulated = <<start, start + 1>>

\* ---------------------------------------------------------------------- C9
\* Every active target skill can receive a positive roi on a day.
Trainable ==
  \A n \in DOMAIN persons : \A k \in DOMAIN persons[n].target :
     /\ \E seg \in DOMAIN persons[n].schedule :
          \E i \in DOMAIN persons[n].overlap :
             /\ Contains(persons[n].overlap[i].combo, k)
             /\ BonusOf(persons[n], persons[n].overlap[i].combo) > 0
             /\ persons[n].schedule[seg] > 0
             /\ Allowed(persons[n], seg, persons[n].overlap[i].combo)
     /\ k \in DOMAIN persons[n].safety_limit => persons[n].safety_limit[k] > 0

\* The hours still needed by all targets of all persons.
TotalNeeded(ps) ==
  SumOver(DOMAIN ps,
          [n \in DOMAIN ps |->
             SumOver(DOMAIN ps[n].target,
                     [k \in DOMAIN ps[n].target |-> ps[n].target[k].hours_needed])])

\* C9: after the last task the driver simulates a day exactly while some
\* person has a target and stops when none has; if every active target skill
\* can receive a positive roi, the loop goes on to the state where all target
\* maps are empty, so no day of the loop ends the run before that state.
C9_Depletion ==
  /\ [][(pc = "deplete" /\ pc' = "deplete") => (AnyTarget(persons) /\ DayStep)]_vars
  /\ [][(pc = "deplete" /\ pc' = "done") => ~AnyTarget(persons)]_vars
  /\ [][(pc = "deplete" /\ Trainable) => pc' # "panicked"]_vars

\* Apart from the missing preference entries, every day of the loop with
\* trainable targets completes and lowers the hours still needed.
C9_ProgressElsewhere ==
  [][(/\ pc = "deplete"
      /\ Trainable
      /\ DayStep
      /\ \A n \in DOMAIN persons : ~PreferenceMissing(persons[n]))
       => (pc' = "deplete" /\ TotalNeeded(persons') < TotalNeeded(persons))]_vars

\* --------------------------------------------------------------------- C10
\* C10: the reported total ROI is the sum of the roi of every day simulated
\* in the run, and the reported ROI per day is that total divided by the
\* number of all simulated days (the quotients compared by cross
\* multiplication).
C10_Report ==
  report.printed =>
    /\ report.total = all_roi
    /\ report.per_day[1] * Len(simulated) = all_roi * report.per_day[2]

====
